---- MODULE Spec2Model ----
(***************************************************************************)
(* GitHubReleasesAnalyzer (src/github-metrics.py): the two paginated       *)
(* listings get_user_repos and get_repo_releases, the aggregation          *)
(* analyze_downloads, and the scan, fold and final sort of run_analysis.   *)
(* The remote API is the environment: every request is answered by an      *)
(* error, an empty page or a non-empty page.                               *)
(***************************************************************************)
EXTENDS Integers, Sequences, FiniteSets, TLC

VARIABLES
    pc,                  \* position of the run inside run_analysis
    repos,               \* get_user_repos' accumulator, then run_analysis' list
    page,                \* page cursor of the listing in progress
    i,                   \* repositories whose loop body has completed
    releases,            \* get_repo_releases' accumulator / analyze_downloads' input
    analysis,            \* the last value returned by analyze_downloads
    total_stats,         \* the running OverallStats
    repos_with_releases, \* the per-repo result list of (repo_name, analysis)
    log                  \* every request issued so far, with its response

vars == <<pc, repos, page, i, releases, analysis, total_stats,
          repos_with_releases, log>>

-----------------------------------------------------------------------------
(* Bounds of the environment and of the inputs. *)

\* non-empty pages the remote serves for one listing
MaxPages == 2
\* repositories the account owns
MaxRepos == 2
\* repositories on one page of the repository listing
MaxPageLen == 2
\* repositories scanned before the final sort on its own
MaxEntries == 3
\* releases in one input of analyze_downloads
MaxReleases == 2
\* assets in one input of analyze_downloads, over all its releases
MaxAssets == 2

(* Program constants. *)
per_page == 100
username == "octocat"

-----------------------------------------------------------------------------
(* Python dictionaries are functions on the keys that are present. *)

EmptyDict == [k \in {} |-> 0]

Get(d, k, default) == IF k \in DOMAIN d THEN d[k] ELSE default

\* JSON null, which the API sends as the name of an untitled release
None == "<None>"

RECURSIVE Concat(_)
Concat(ss) == IF ss = <<>> THEN <<>> ELSE Head(ss) \o Concat(Tail(ss))

RECURSIVE SumSeq(_)
SumSeq(s) == IF s = <<>> THEN 0 ELSE Head(s) + SumSeq(Tail(s))

Map(s, F(_)) == [k \in 1..Len(s) |-> F(s[k])]

-----------------------------------------------------------------------------
(* The remote API. *)

RepoNames == <<"alpha", "beta", "gamma", "delta">>

ReposUrl == <<"users", username, "repos">>

ReleasesUrl(repo_name) == <<"repos", username, repo_name, "releases">>

\* the next n repositories of the account, after the `have` already listed
RepoSlice(have, n) == [k \in 1..n |-> [name |-> RepoNames[have + k]]]

AssetA == [name |-> "a.zip", download_count |-> 10, size |-> 2048,
           content_type |-> "application/zip"]
AssetB == [name |-> "b.zip", download_count |-> 0, size |-> 0,
           content_type |-> "application/zip"]

ReleaseA == [name |-> "v1.0", tag_name |-> "v1.0", assets |-> <<AssetA, AssetB>>]
ReleaseB == [tag_name |-> "v0.9", assets |-> <<AssetB, EmptyDict>>]
ReleaseD == [name |-> "draft"]

\* the non-empty pages of releases the remote may answer with
ReleasePages == { <<ReleaseA>>, <<ReleaseB, ReleaseD>> }

Request(url, p, type) ==
    IF type = "" THEN [url |-> url, page |-> p, per_page |-> per_page]
    ELSE [url |-> url, page |-> p, per_page |-> per_page, type |-> type]

\* requests.get + raise_for_status + json: the exchange as recorded
Exchange(url, p, type, ok, body) ==
    [request |-> Request(url, p, type), ok |-> ok, body |-> body]

-----------------------------------------------------------------------------
ZeroStats == [total_downloads |-> 0, total_assets |-> 0,
              releases_with_downloads |-> 0, total_releases |-> 0,
              repos_with_releases |-> 0]

NoAnalysis == [total_downloads |-> 0, total_assets |-> 0,
               releases_with_downloads |-> 0, total_releases |-> 0,
               asset_details |-> <<>>]

Init ==
    /\ pc = "get_user_repos"
    /\ repos = <<>>
    /\ page = 1
    /\ i = 0
    /\ releases = <<>>
    /\ analysis = NoAnalysis
    /\ total_stats = ZeroStats
    /\ repos_with_releases = <<>>
    /\ log = <<>>

-----------------------------------------------------------------------------
(* get_user_repos *)

\* `return repos`, then run_analysis up to the head of its for loop
ReturnRepos(rs) ==
    IF rs = <<>>
    THEN /\ pc' = "done"
         /\ UNCHANGED total_stats
    ELSE /\ pc' = "for"
         /\ total_stats' = ZeroStats

ReposPage ==
    /\ pc = "get_user_repos"
    /\ page <= MaxPages
    /\ \E n \in 1..MaxPageLen :
        /\ Len(repos) + n <= MaxRepos
        /\ LET page_repos == RepoSlice(Len(repos), n) IN
            /\ log' = Append(log, Exchange(ReposUrl, page, "owner", TRUE, page_repos))
            /\ repos' = repos \o page_repos
            /\ page' = page + 1
    /\ UNCHANGED <<pc, i, releases, analysis, total_stats, repos_with_releases>>

ReposEmpty ==
    /\ pc = "get_user_repos"
    /\ log' = Append(log, Exchange(ReposUrl, page, "owner", TRUE, <<>>))
    /\ ReturnRepos(repos)
    /\ UNCHANGED <<repos, page, i, releases, analysis, repos_with_releases>>

ReposError ==
    /\ pc = "get_user_repos"
    /\ log' = Append(log, Exchange(ReposUrl, page, "owner", FALSE, <<>>))
    /\ ReturnRepos(repos)
    /\ UNCHANGED <<repos, page, i, releases, analysis, repos_with_releases>>

-----------------------------------------------------------------------------
(* analyze_downloads *)

ReleaseNameTagFirst(release) ==
    Get(release, "tag_name", Get(release, "name", "Unknown"))

ReleaseName(release) == Get(release, "name", Get(release, "tag_name", "Unknown"))

AssetDetail(release, asset, download_count) ==
    [release_name |-> ReleaseName(release),
     asset_name |-> Get(asset, "name", "Unknown"),
     downloads |-> download_count,
     size |-> Get(asset, "size", 0),
     content_type |-> Get(asset, "content_type", "Unknown")]

\* the inner loop's body: st carries release_downloads, total_downloads and
\* asset_details
AssetStepSkipsZero(release, asset, st) ==
    LET download_count == Get(asset, "download_count", 0)
    IN [release_downloads |-> st.release_downloads + download_count,
        total_downloads |-> st.total_downloads + download_count,
        asset_details |->
            IF download_count > 0
            THEN Append(st.asset_details, AssetDetail(release, asset, download_count))
            ELSE st.asset_details]

AssetStep(release, asset, st) ==
    LET download_count == Get(asset, "download_count", 0)
    IN [release_downloads |-> st.release_downloads + download_count,
        total_downloads |-> st.total_downloads + download_count,
        asset_details |-> Append(st.asset_details,
                                 AssetDetail(release, asset, download_count))]

RECURSIVE LoopAssets(_, _, _)
LoopAssets(release, assets, st) ==
    IF assets = <<>> THEN st
    ELSE LoopAssets(release, Tail(assets), AssetStep(release, Head(assets), st))

HasDownloadsOrNone(release_downloads) == release_downloads >= 0

HasDownloads(release_downloads) == release_downloads > 0

\* the outer loop's body with release_downloads never reset between releases
ReleaseStepNoReset(release, st) ==
    LET release_assets == Len(Get(release, "assets", <<>>))
        inner == LoopAssets(release, Get(release, "assets", <<>>),
                    [release_downloads |-> st.total_downloads,
                     total_downloads |-> st.total_downloads,
                     asset_details |-> st.asset_details])
    IN [total_downloads |-> inner.total_downloads,
        total_assets |-> st.total_assets + release_assets,
        releases_with_downloads |->
            IF HasDownloads(inner.release_downloads)
            THEN st.releases_with_downloads + 1
            ELSE st.releases_with_downloads,
        asset_details |-> inner.asset_details]

\* the outer loop's body: st carries the four running values
ReleaseStep(release, st) ==
    LET release_assets == Len(Get(release, "assets", <<>>))
        inner == LoopAssets(release, Get(release, "assets", <<>>),
                    [release_downloads |-> 0,
                     total_downloads |-> st.total_downloads,
                     asset_details |-> st.asset_details])
    IN [total_downloads |-> inner.total_downloads,
        total_assets |-> st.total_assets + release_assets,
        releases_with_downloads |->
            IF HasDownloads(inner.release_downloads)
            THEN st.releases_with_downloads + 1
            ELSE st.releases_with_downloads,
        asset_details |-> inner.asset_details]

RECURSIVE LoopReleases(_, _)
LoopReleases(rels, st) ==
    IF rels = <<>> THEN st
    ELSE LoopReleases(Tail(rels), ReleaseStep(Head(rels), st))

analyze_downloads(rels) ==
    LET st == LoopReleases(rels, [total_downloads |-> 0, total_assets |-> 0,
                                  releases_with_downloads |-> 0,
                                  asset_details |-> <<>>])
    IN [total_downloads |-> st.total_downloads,
        total_assets |-> st.total_assets,
        releases_with_downloads |-> st.releases_with_downloads,
        total_releases |-> Len(rels),
        asset_details |-> st.asset_details]

-----------------------------------------------------------------------------
(* run_analysis: the scan *)

BeginRepo ==
    /\ pc = "for"
    /\ i < Len(repos)
    /\ pc' = "get_repo_releases"
    /\ releases' = <<>>
    /\ page' = 1
    /\ UNCHANGED <<repos, i, analysis, total_stats, repos_with_releases, log>>

repo_name == repos[i + 1]["name"]

\* the page put in front of the accumulator instead of behind it
ReleasesPagePrepends ==
    /\ pc = "get_repo_releases"
    /\ page <= MaxPages
    /\ \E page_releases \in ReleasePages :
        /\ log' = Append(log, Exchange(ReleasesUrl(repo_name), page, "", TRUE,
                                       page_releases))
        /\ releases' = page_releases \o releases
        /\ page' = page + 1
    /\ UNCHANGED <<pc, repos, i, analysis, total_stats, repos_with_releases>>

ReleasesPage ==
    /\ pc = "get_repo_releases"
    /\ page <= MaxPages
    /\ \E page_releases \in ReleasePages :
        /\ log' = Append(log, Exchange(ReleasesUrl(repo_name), page, "", TRUE,
                                       page_releases))
        /\ releases' = releases \o page_releases
        /\ page' = page + 1
    /\ UNCHANGED <<pc, repos, i, analysis, total_stats, repos_with_releases>>

ReleasesEmpty ==
    /\ pc = "get_repo_releases"
    /\ log' = Append(log, Exchange(ReleasesUrl(repo_name), page, "", TRUE, <<>>))
    /\ pc' = "aggregate"
    /\ UNCHANGED <<repos, page, i, releases, analysis, total_stats,
                   repos_with_releases>>

\* a failed page throws away the pages already fetched
ReleasesErrorDiscards ==
    /\ pc = "get_repo_releases"
    /\ log' = Append(log, Exchange(ReleasesUrl(repo_name), page, "", FALSE, <<>>))
    /\ pc' = "aggregate"
    /\ releases' = <<>>
    /\ UNCHANGED <<repos, page, i, analysis, total_stats, repos_with_releases>>

\* a failed page is not caught in the loop and ends the run
ReleasesErrorAborts ==
    /\ pc = "get_repo_releases"
    /\ log' = Append(log, Exchange(ReleasesUrl(repo_name), page, "", FALSE, <<>>))
    /\ pc' = "done"
    /\ UNCHANGED <<repos, page, i, releases, analysis, total_stats,
                   repos_with_releases>>

ReleasesError ==
    /\ pc = "get_repo_releases"
    /\ log' = Append(log, Exchange(ReleasesUrl(repo_name), page, "", FALSE, <<>>))
    /\ pc' = "aggregate"
    /\ UNCHANGED <<repos, page, i, releases, analysis, total_stats,
                   repos_with_releases>>

\* total_assets folded into total_releases as well
FoldMixesFields(stats, a) ==
    [total_downloads |-> stats.total_downloads + a.total_downloads,
     total_assets |-> stats.total_assets + a.total_assets,
     releases_with_downloads |->
         stats.releases_with_downloads + a.releases_with_downloads,
     total_releases |-> stats.total_releases + a.total_assets,
     repos_with_releases |-> stats.repos_with_releases + 1]

Fold(stats, a) ==
    [total_downloads |-> stats.total_downloads + a.total_downloads,
     total_assets |-> stats.total_assets + a.total_assets,
     releases_with_downloads |->
         stats.releases_with_downloads + a.releases_with_downloads,
     total_releases |-> stats.total_releases + a.total_releases,
     repos_with_releases |-> stats.repos_with_releases + 1]

\* the loop body without its `if releases:` test
AggregateAlways ==
    /\ pc = "aggregate"
    /\ analysis' = analyze_downloads(releases)
    /\ total_stats' = Fold(total_stats, analysis')
    /\ repos_with_releases' = Append(repos_with_releases, <<repo_name, analysis'>>)
    /\ i' = i + 1
    /\ pc' = "for"
    /\ UNCHANGED <<repos, page, releases, log>>

\* the rest of the loop body, after get_repo_releases has returned
Aggregate ==
    /\ pc = "aggregate"
    /\ IF releases # <<>>
       THEN /\ analysis' = analyze_downloads(releases)
            /\ total_stats' = Fold(total_stats, analysis')
            /\ repos_with_releases' =
                   Append(repos_with_releases, <<repo_name, analysis'>>)
       ELSE UNCHANGED <<analysis, total_stats, repos_with_releases>>
    /\ i' = i + 1
    /\ pc' = "for"
    /\ UNCHANGED <<repos, page, releases, log>>

EndScan ==
    /\ pc = "for"
    /\ i >= Len(repos)
    /\ pc' = "report"
    /\ UNCHANGED <<repos, page, i, releases, analysis, total_stats,
                   repos_with_releases, log>>

-----------------------------------------------------------------------------
(* run_analysis: the report *)

SortKey(x) == x[2].total_downloads

\* list.sort(key=..., reverse=True) keeps equal keys in their original order
\* equal keys change places, as in an ascending sort that is then reversed
StaysBehindStrict(y, x) == SortKey(y) > SortKey(x)

\* x, coming later in the list, stays behind y
StaysBehind(y, x) == SortKey(y) >= SortKey(x)

RECURSIVE InsertDesc(_, _)
InsertDesc(sorted, x) ==
    IF sorted = <<>> THEN <<x>>
    ELSE IF StaysBehind(Head(sorted), x)
         THEN <<Head(sorted)>> \o InsertDesc(Tail(sorted), x)
         ELSE <<x>> \o sorted

RECURSIVE SortDesc(_, _)
SortDesc(sorted, rest) ==
    IF rest = <<>> THEN sorted
    ELSE SortDesc(InsertDesc(sorted, Head(rest)), Tail(rest))

Report ==
    /\ pc = "report"
    /\ repos_with_releases' =
           IF repos_with_releases # <<>>
           THEN SortDesc(<<>>, repos_with_releases)
           ELSE repos_with_releases
    /\ pc' = "done"
    /\ UNCHANGED <<repos, page, i, releases, analysis, total_stats, log>>

Next ==
    \/ ReposPage
    \/ ReposEmpty
    \/ ReposError
    \/ BeginRepo
    \/ ReleasesPage
    \/ ReleasesEmpty
    \/ ReleasesError
    \/ Aggregate
    \/ EndScan
    \/ Report

Spec == Init /\ [][Next]_vars

-----------------------------------------------------------------------------
(* The listings, read off the exchanges recorded in log. *)

FetchLog(url) == SelectSeq(log, LAMBDA e : e.request.url = url)

\* the bodies of the first n exchanges of a listing, joined
Joined(fl, n) == Concat([k \in 1..n |-> fl[k].body])

AllOk(fl) == \A k \in 1..Len(fl) : fl[k].ok

Numbered(fl) == \A k \in 1..Len(fl) : fl[k].request.page = k

\* the requests of a listing that has returned without a failure
PagedShape(fl) ==
    LET n == Len(fl) IN
    /\ n >= 1
    /\ Numbered(fl)
    /\ \A k \in 1..(n - 1) : fl[k].body # <<>>
    /\ fl[n].body = <<>>
    /\ n = Cardinality({ k \in 1..n : fl[k].body # <<>> }) + 1

\* a listing that has returned `result` without a failure
PagedThrough(fl, result) ==
    /\ PagedShape(fl)
    /\ result = Joined(fl, Len(fl) - 1)

\* the listing of repository j's releases
RepoLog(j) == FetchLog(ReleasesUrl(repos[j]["name"]))

\* what get_repo_releases returned for repository j: the pages it was sent
Returned(j) == Joined(RepoLog(j), Len(RepoLog(j)))

\* C1: a listing in which no request fails asks for pages 1, 2, 3, ... in
\* turn, stops at the first empty page, returns the earlier pages joined in
\* request order, and has issued one request more than it got non-empty pages.
C1_Pagination ==
    /\ (pc # "get_user_repos" /\ AllOk(FetchLog(ReposUrl)))
           => PagedThrough(FetchLog(ReposUrl), repos)
    /\ (pc = "aggregate" /\ AllOk(RepoLog(i + 1)))
           => PagedThrough(RepoLog(i + 1), releases)
    /\ \A j \in 1..i : AllOk(RepoLog(j)) => PagedShape(RepoLog(j))

\* two different non-empty pages, then the empty one: three requests
C1_Witness ==
    /\ pc = "aggregate"
    /\ LET fl == RepoLog(i + 1) IN
        /\ Len(fl) = 3
        /\ AllOk(fl)
        /\ fl[1].body = <<ReleaseB, ReleaseD>>
        /\ fl[2].body = <<ReleaseA>>
        /\ fl[3].body = <<>>
    /\ releases = <<ReleaseB, ReleaseD, ReleaseA>>

\* a listing whose page k failed: the failure is its last exchange, pages
\* 1..k were asked once each, and `result` is pages 1..k-1 joined
StoppedAtError(fl, returned, result) ==
    \A k \in 1..Len(fl) :
        ~fl[k].ok =>
            /\ k = Len(fl)
            /\ returned
            /\ Numbered(fl)
            /\ \A m \in 1..(k - 1) : fl[m].ok
            /\ result = Joined(fl, k - 1)

\* C2: when the request for page k fails, the listing ends there (page k is
\* not asked again, no later page is asked), control is back in the caller,
\* and the value returned is pages 1..k-1 joined.
C2_ErrorStops ==
    /\ StoppedAtError(FetchLog(ReposUrl), pc # "get_user_repos", repos)
    /\ pc \in {"get_repo_releases", "aggregate"}
           => StoppedAtError(RepoLog(i + 1), pc = "aggregate", releases)
    /\ \A j \in 1..i :
           StoppedAtError(RepoLog(j), TRUE, Returned(j))

\* the second page failed: the first page alone is returned
C2_Witness ==
    /\ pc = "aggregate"
    /\ LET fl == RepoLog(i + 1) IN
        /\ Len(fl) = 2
        /\ fl[1].ok
        /\ ~fl[2].ok
        /\ releases = fl[1].body
        /\ releases # <<>>

-----------------------------------------------------------------------------
(* The scan, read off log. *)

\* the repositories whose releases were asked for, in the order of first asking
RECURSIVE Asked(_)
Asked(l) ==
    IF l = <<>> THEN <<>>
    ELSE LET rest == Asked(Tail(l))
             name == Head(l).request.url[3]
         IN IF Head(l).request.url = ReposUrl THEN rest
            ELSE IF rest # <<>> /\ Head(rest) = name THEN rest
            ELSE <<name>> \o rest

NamesOf(rs) == [k \in 1..Len(rs) |-> rs[k]["name"]]

\* C3: the releases of every repository of the list are asked for, in list
\* order and one repository at a time, a repository's result being folded in
\* before the next one is asked for, whichever listings failed before.
C3_ScanContinues ==
    /\ pc \in {"for", "report", "done"} => Asked(log) = SubSeq(NamesOf(repos), 1, i)
    /\ pc = "get_repo_releases"
           => Asked(log) \in { SubSeq(NamesOf(repos), 1, i),
                               SubSeq(NamesOf(repos), 1, i + 1) }
    /\ pc = "aggregate" => Asked(log) = SubSeq(NamesOf(repos), 1, i + 1)
    /\ pc \in {"report", "done"} => i = Len(repos)
    /\ (pc = "done" /\ repos # <<>>) => Asked(log) = NamesOf(repos)
    /\ Len(repos_with_releases) <= i

\* the first repository's listing failed at once, the second was still listed
C3_Witness ==
    /\ pc = "done"
    /\ Len(repos) = 2
    /\ ~RepoLog(1)[1].ok
    /\ Returned(2) # <<>>
    /\ Len(repos_with_releases) = 1

\* the completed repositories whose listing returned something
RECURSIVE WithReleases(_)
WithReleases(j) ==
    IF j = 0 THEN <<>>
    ELSE IF Returned(j) # <<>>
         THEN Append(WithReleases(j - 1), repos[j]["name"])
         ELSE WithReleases(j - 1)

Range(s) == { s[k] : k \in 1..Len(s) }

ResultNames == [k \in 1..Len(repos_with_releases) |-> repos_with_releases[k][1]]

\* C4: a repository is in the result list exactly if its listing returned at
\* least one release, and folding in a repository without releases leaves the
\* result list and every field of the running totals as they were.
C4_EmptySkipped ==
    /\ [](/\ pc # "done" => ResultNames = WithReleases(i)
          /\ pc = "done" => /\ Range(ResultNames) = Range(WithReleases(i))
                             /\ Len(ResultNames) = Len(WithReleases(i))
          /\ total_stats.repos_with_releases = Len(WithReleases(i)))
    /\ [][(pc = "aggregate" /\ releases = <<>>)
             => /\ total_stats' = total_stats
                /\ repos_with_releases' = repos_with_releases]_vars

\* of two repositories only the second had releases
C4_Witness ==
    /\ pc = "report"
    /\ Len(repos) = 2
    /\ Returned(1) = <<>>
    /\ AllOk(RepoLog(1))
    /\ ResultNames = <<"beta">>
    /\ total_stats.repos_with_releases = 1

SumField(f) ==
    SumSeq([k \in 1..Len(repos_with_releases) |-> repos_with_releases[k][2][f]])

\* C5: each numeric field of the running totals is the sum of that field over
\* the analyses in the result list, and repos_with_releases is its length.
C5_TotalsAreSums ==
    /\ total_stats.total_downloads = SumField("total_downloads")
    /\ total_stats.total_assets = SumField("total_assets")
    /\ total_stats.releases_with_downloads = SumField("releases_with_downloads")
    /\ total_stats.total_releases = SumField("total_releases")
    /\ total_stats.repos_with_releases = Len(repos_with_releases)

\* two repositories folded in, with different analyses
C5_Witness ==
    /\ pc = "for"
    /\ Len(repos_with_releases) = 2
    /\ repos_with_releases[1][2].total_downloads = 10
    /\ repos_with_releases[2][2].total_downloads = 20
    /\ total_stats.total_downloads = 30
    /\ total_stats.total_assets = 6
    /\ total_stats.total_releases = 3

-----------------------------------------------------------------------------
(* The final sort on its own, over every result list within the bounds. *)

\* what get_repo_releases may have returned for a repository
SortInputs == { <<>>, <<ReleaseA>>, <<ReleaseB, ReleaseD>>,
                <<ReleaseA, ReleaseB, ReleaseD>>, <<ReleaseA, ReleaseA>> }

RECURSIVE FoldAll(_, _)
FoldAll(stats, entries) ==
    IF entries = <<>> THEN stats
    ELSE FoldAll(Fold(stats, Head(entries)[2]), Tail(entries))

\* the state at the end of a scan of MaxEntries repositories
InitSort ==
    /\ pc = "report"
    /\ repos = RepoSlice(0, MaxEntries)
    /\ i = MaxEntries
    /\ page = 1
    /\ \E f \in [1..MaxEntries -> SortInputs] :
        /\ releases = f[MaxEntries]
        /\ repos_with_releases =
               SelectSeq([k \in 1..MaxEntries |->
                             <<repos[k]["name"], analyze_downloads(f[k])>>],
                         LAMBDA e : e[2].total_releases > 0)
    /\ analysis = IF repos_with_releases = <<>> THEN NoAnalysis
                  ELSE repos_with_releases[Len(repos_with_releases)][2]
    /\ total_stats = FoldAll(ZeroStats, repos_with_releases)
    /\ log = <<>>

SpecSort == InitSort /\ [][Report]_vars

Position(s, x) == CHOOSE k \in 1..Len(s) : s[k] = x

\* `new` is `old` reordered by total_downloads, largest first, equal totals
\* keeping the order they had in `old`
StableSortedDesc(old, new) ==
    /\ Len(new) = Len(old)
    /\ Range(new) = Range(old)
    /\ \A k \in 1..(Len(new) - 1) :
           new[k][2].total_downloads >= new[k + 1][2].total_downloads
    /\ \A a, b \in 1..Len(old) :
           (a < b /\ old[a][2].total_downloads = old[b][2].total_downloads)
               => Position(new, old[a]) < Position(new, old[b])

\* C9: the report's list is the scan-order list reordered by total_downloads,
\* largest first, and repositories with equal totals keep their scan order.
C9_StableDescending ==
    [][pc = "report" => StableSortedDesc(repos_with_releases, repos_with_releases')]_vars

\* the last two repositories tie ahead of the first and keep their scan order
C9_Witness ==
    /\ pc = "done"
    /\ NamesOf(repos) = <<"alpha", "beta", "gamma">>
    /\ ResultNames = <<"beta", "gamma", "alpha">>
    /\ repos_with_releases[1][2].total_downloads = 10
    /\ repos_with_releases[2][2].total_downloads = 10
    /\ repos_with_releases[3][2].total_downloads = 0

-----------------------------------------------------------------------------
(* analyze_downloads on its own, over every input within the bounds. *)

AssetInputs ==
    { EmptyDict,
      [name |-> "x.bin", download_count |-> 0, size |-> 512,
       content_type |-> "text/plain"],
      [name |-> "y.bin", download_count |-> 3] }

SeqsOfLen(S, n) == { f \in [1..n -> S] : TRUE }

\* name and tag_name, each present or not; name possibly null
ReleaseHeads ==
    { EmptyDict, [tag_name |-> "t2"],
      [name |-> "v2.0"], [name |-> "v2.0", tag_name |-> "t2"],
      [name |-> None], [name |-> None, tag_name |-> "t2"] }

WithAssets(head, assets) ==
    [k \in DOMAIN head \cup {"assets"} |->
        IF k = "assets" THEN assets ELSE head[k]]

\* the releases that carry exactly k assets
ReleasesWith(k) ==
    (IF k = 0 THEN ReleaseHeads ELSE {})
    \cup { WithAssets(h, as) : h \in ReleaseHeads, as \in SeqsOfLen(AssetInputs, k) }

\* len(assets), summed over the releases
CountAssets(rels) == SumSeq(Map(rels, LAMBDA r : Len(Get(r, "assets", <<>>))))

InitAnalyze ==
    /\ pc = "input"
    /\ releases = <<>>
    /\ repos = <<>>
    /\ page = 1
    /\ i = 0
    /\ analysis = NoAnalysis
    /\ total_stats = ZeroStats
    /\ repos_with_releases = <<>>
    /\ log = <<>>

\* the caller's list grows by one release, within the bounds
InputRelease ==
    /\ pc = "input"
    /\ Len(releases) < MaxReleases
    /\ \E k \in 0..(MaxAssets - CountAssets(releases)) :
         \E r \in ReleasesWith(k) : releases' = Append(releases, r)
    /\ UNCHANGED <<pc, repos, page, i, analysis, total_stats, repos_with_releases,
                   log>>

Analyze ==
    /\ pc = "input"
    /\ analysis' = analyze_downloads(releases)
    /\ pc' = "analyzed"
    /\ UNCHANGED <<repos, page, i, releases, total_stats, repos_with_releases, log>>

NextAnalyze ==
    \/ InputRelease
    \/ Analyze

SpecAnalyze == InitAnalyze /\ [][NextAnalyze]_vars

-----------------------------------------------------------------------------
(* What analyze_downloads is expected to return, stated without its loops. *)

AssetsOf(release) == IF "assets" \in DOMAIN release THEN release.assets ELSE <<>>

DownloadsOf(asset) ==
    IF "download_count" \in DOMAIN asset THEN asset.download_count ELSE 0

\* the (release, asset) pairs in encounter order
Encounters(rels) ==
    Concat(Map(rels, LAMBDA r : Map(AssetsOf(r), LAMBDA a : <<r, a>>)))

ReleaseDownloads(release) == SumSeq(Map(AssetsOf(release), DownloadsOf))

Analyzed == pc = "analyzed"

\* C6: total_assets is the sum of len(assets) over the input whatever the
\* download counts are, asset_details has total_assets rows, the rows follow
\* the encounter order (release order, then asset order), and an input with no
\* assets at all gives zero totals and no rows.
C6_AssetsCounted ==
    Analyzed =>
        LET enc == Encounters(releases) IN
        /\ analysis.total_assets = SumSeq(Map(releases, LAMBDA r : Len(AssetsOf(r))))
        /\ Len(analysis.asset_details) = analysis.total_assets
        /\ Len(enc) = Len(analysis.asset_details)
        /\ \A k \in 1..Len(enc) :
              LET row == analysis.asset_details[k]
                  a == enc[k][2]
              IN /\ row.downloads = DownloadsOf(a)
                 /\ row.asset_name = (IF "name" \in DOMAIN a THEN a.name ELSE "Unknown")
                 /\ row.size = (IF "size" \in DOMAIN a THEN a.size ELSE 0)
                 /\ row.content_type =
                        (IF "content_type" \in DOMAIN a THEN a.content_type
                         ELSE "Unknown")
        /\ analysis.total_releases = Len(releases)
        /\ enc = <<>> =>
              /\ analysis.total_downloads = 0
              /\ analysis.total_assets = 0
              /\ analysis.releases_with_downloads = 0
              /\ analysis.asset_details = <<>>

\* two releases with assets, the first asset without downloads, all listed
C6_Witness ==
    /\ Analyzed
    /\ Len(releases) = 2
    /\ analysis.total_assets = 2
    /\ Len(analysis.asset_details) = 2
    /\ analysis.asset_details[1].asset_name = "x.bin"
    /\ analysis.asset_details[1].downloads = 0
    /\ analysis.asset_details[2].asset_name = "y.bin"
    /\ AssetsOf(releases[1]) # <<>>
    /\ AssetsOf(releases[2]) # <<>>

\* C7: releases_with_downloads is the number of releases whose summed
\* download_count (a missing field counting as 0) is strictly positive, and
\* total_downloads is the sum of the per-release sums.
C7_DownloadsCounted ==
    Analyzed =>
        /\ analysis.releases_with_downloads =
               Cardinality({ k \in 1..Len(releases) :
                               ReleaseDownloads(releases[k]) > 0 })
        /\ analysis.total_downloads = SumSeq(Map(releases, ReleaseDownloads))

\* a release with downloads followed by one whose only asset has none
C7_Witness ==
    /\ Analyzed
    /\ Len(releases) = 2
    /\ ReleaseDownloads(releases[1]) > 0
    /\ Len(AssetsOf(releases[2])) = 1
    /\ "download_count" \in DOMAIN releases[2].assets[1]
    /\ ReleaseDownloads(releases[2]) = 0
    /\ analysis.releases_with_downloads = 1

\* C8: every row carries the release's name when the release has that field,
\* else its tag_name when it has that one, else "Unknown"; the rows of one
\* release carry the same display name.
C8_DisplayName ==
    Analyzed =>
        LET enc == Encounters(releases) IN
        /\ Len(enc) = Len(analysis.asset_details)
        /\ \A k \in 1..Len(enc) :
              LET r == enc[k][1] IN
              analysis.asset_details[k].release_name =
                  (IF "name" \in DOMAIN r THEN r.name
                   ELSE IF "tag_name" \in DOMAIN r THEN r.tag_name
                   ELSE "Unknown")
        /\ \A r \in { releases[k] : k \in 1..Len(releases) } :
              \A a, b \in { analysis.asset_details[k].release_name :
                              k \in { j \in 1..Len(enc) : enc[j][1] = r } } : a = b

\* one release with name and tag_name and two assets, both rows under its name
C8_Witness ==
    /\ Analyzed
    /\ Len(releases) = 1
    /\ DOMAIN releases[1] = {"name", "tag_name", "assets"}
    /\ releases[1].name # releases[1].tag_name
    /\ Len(analysis.asset_details) = 2
    /\ analysis.asset_details[1].release_name = releases[1].name
    /\ analysis.asset_details[2].release_name = releases[1].name

\* the inputs InputRelease builds: at most nr releases, at most na assets
RECURSIVE InputsUpTo(_, _)
InputsUpTo(nr, na) ==
    IF nr = 0 THEN { <<>> }
    ELSE { <<>> } \cup UNION { { <<r>> \o rest : r \in ReleasesWith(k),
                                               rest \in InputsUpTo(nr - 1, na - k) }
                              : k \in 0..na }

\* C10 as claimed: some input of releases with non-negative download counts
\* gives releases_with_downloads greater than total_assets.
C10_SomeInputExceeds ==
    Analyzed =>
        \E rels \in InputsUpTo(MaxReleases, MaxAssets) :
            analyze_downloads(rels).releases_with_downloads
                > analyze_downloads(rels).total_assets

\* C10 as amended: a release counts towards releases_with_downloads only if one
\* of its assets has downloads, so releases_with_downloads never exceeds
\* total_assets.
C10_AssetsBoundDownloaded ==
    Analyzed => analysis.releases_with_downloads <= analysis.total_assets

\* every asset belongs to a release with downloads of its own: the bound is met
C10_Witness ==
    /\ Analyzed
    /\ analysis.releases_with_downloads = 2
    /\ analysis.total_assets = 2

\* the inputs reached are the inputs C10_SomeInputExceeds ranges over
InputsCovered == releases \in InputsUpTo(MaxReleases, MaxAssets)
====
